---- MODULE Spec2Model ----
(***************************************************************************)
(* Bookstore (Prayah): the storefront cart and checkout of                 *)
(* src/app_enhanced.py, the admin book handlers of src/admin/routes.py and *)
(* the tables and notification log of src/models/database.py.              *)
(*                                                                         *)
(* Every request handler opens its own sqlite3 connection                  *)
(* (Database.get_connection).  A SELECT reads the committed database; the  *)
(* first INSERT/UPDATE/DELETE of a connection opens a write transaction    *)
(* that holds the database's single write lock until commit.  A checkout   *)
(* is therefore modelled as the steps between which another request can    *)
(* run: one step per SELECT, one for the first INSERT (lock taken), one    *)
(* for the commit, one for the notification and the cart clearing.         *)
(*                                                                         *)
(* Money is kept in whole units; a REAL column can also hold +/-Infinity,  *)
(* and NaN is stored as NULL, so a price or a total is a tagged value.     *)
(***************************************************************************)
EXTENDS Integers, Sequences, FiniteSets, TLC

VARIABLES
    books,          \* table books: id -> [title, author, description, genre,
                    \*                      price, stock, stock_threshold]
    next_book_id,   \* AUTOINCREMENT counter of table books
    orders,         \* table orders, in insertion order
    order_items,    \* table order_items, in insertion order
    notifications,  \* table notifications, in insertion order
    writer,         \* the connection holding the database write lock
    cart,           \* session['cart'] of each session, in insertion order
    pc,             \* where each session's request handler stands
    idx,            \* checkout: the cart line the read loop is at
    cart_items,     \* checkout: local list cart_items
    total,          \* checkout: local total
    order_id,       \* checkout: local order_id
    outcome,        \* the response of the session's last storefront request
    admin_id,       \* session['admin_id'] of the back-office browser
    admin_outcome,  \* the response of the last admin request
    admin_page,     \* the tables whose rows that response shows
    body            \* the list last rendered: its column header, if it has
                    \* one, and the ids of the books it has a row for

vars == <<books, next_book_id, orders, order_items, notifications, writer,
          cart, pc, idx, cart_items, total, order_id, outcome,
          admin_id, admin_outcome, admin_page, body>>

dbvars == <<books, next_book_id, orders, order_items, notifications>>
localvars == <<idx, cart_items, total, order_id>>
shopvars == <<cart, pc, idx, cart_items, total, order_id, outcome>>
adminvars == <<admin_id, admin_outcome, admin_page, body>>

----------------------------------------------------------------------------
(* Bounds of the model *)

MaxStock == 2        \* stock of a book in the initial catalogue: 0..MaxStock
MaxQty == 2          \* a cart line's quantity stays within -MaxQty..MaxQty
MaxOrders == 2       \* checkouts are started while fewer orders can result
MaxBooks == 3        \* book ids handed out by AUTOINCREMENT: 1..MaxBooks
MaxCartOrders == 1   \* orders of the customer who shops alone
MaxNotifications == 3 \* admin requests are taken while the log is shorter

Sessions == {"s1", "s2"}
InitBookIds == {1, 2}
BookIds == 1..MaxBooks
OrderIds == {"1A2B3C4D", "9F8E7D6C"}
NoOne == "none"
NoOrderId == "none"
NoAdmin == 0          \* no admin_id in the session (admins.id starts at 1)
AdminUser == 1       \* admins.id of the default admin row

----------------------------------------------------------------------------
(* REAL values: Python floats and SQLite REAL columns *)

Fin(n) == [k |-> "fin", v |-> n]
PosInf == [k |-> "inf", v |-> 0]
NegInf == [k |-> "-inf", v |-> 0]
NaN == [k |-> "nan", v |-> 0]

\* float * int
FMul(p, q) ==
    CASE p.k = "fin" -> Fin(p.v * q)
      [] p.k = "nan" -> NaN
      [] p.k = "inf" -> IF q > 0 THEN PosInf ELSE IF q < 0 THEN NegInf ELSE NaN
      [] p.k = "-inf" -> IF q > 0 THEN NegInf ELSE IF q < 0 THEN PosInf ELSE NaN

\* float + float
FAdd(a, b) ==
    CASE a.k = "nan" \/ b.k = "nan" -> NaN
      [] a.k = "fin" /\ b.k = "fin" -> Fin(a.v + b.v)
      [] a.k = "fin" -> b
      [] b.k = "fin" -> a
      [] a.k = b.k -> a
      [] OTHER -> NaN

\* float == float
FEq(a, b) == a.k # "nan" /\ b.k # "nan" /\ a = b

IsFinite(p) == p.k = "fin"

----------------------------------------------------------------------------
(* Sequences as tables *)

Range(seq) == {seq[i] : i \in 1..Len(seq)}

RECURSIVE SumSeq(_)
SumSeq(seq) ==
    IF seq = <<>> THEN Fin(0) ELSE FAdd(SumSeq(SubSeq(seq, 1, Len(seq) - 1)), seq[Len(seq)])

\* the position of book b's line in a cart, 0 when absent (dict lookup)
CartPos(c, b) ==
    IF \E i \in 1..Len(c) : c[i].book_id = b
    THEN CHOOSE i \in 1..Len(c) : c[i].book_id = b
    ELSE 0

RemoveAt(c, i) == SubSeq(c, 1, i - 1) \o SubSeq(c, i + 1, Len(c))

----------------------------------------------------------------------------------------------------------------------------------------
(* Initial state: the tables after Database.init_db, which keeps the rows of
   an existing bookstore.db and seeds the catalogue otherwise; there is no
   order and no notification yet, and nobody holds the write lock. *)

InitPrice(b) == Fin(b + 1)
InitThreshold == 1

Outcomes == {"none", "ok", "empty", "insufficient", "cart", "added", "updated", "removed",
             "TypeError", "IntegrityError", "OperationalError", "RuntimeError"}

\* the carts add_to_cart can build from quantities in Q: one line per book
Lines(Q) == {[book_id |-> b, quantity |-> q] : b \in InitBookIds, q \in Q}
Carts(Q) ==
    {<<>>} \cup {<<l>> : l \in Lines(Q)}
           \cup {c \in {<<l, m>> : l \in Lines(Q), m \in Lines(Q)} :
                    c[1].book_id # c[2].book_id}

\* the text columns of the first two sample books
SampleText(b) ==
    IF b = 1
    THEN [title |-> "The Great Gatsby", author |-> "F. Scott Fitzgerald",
          description |-> "A classic American novel", genre |-> "Fiction"]
    ELSE [title |-> "To Kill a Mockingbird", author |-> "Harper Lee",
          description |-> "A gripping tale", genre |-> "Fiction"]

SampleBook(b, stock) ==
    [title |-> SampleText(b).title, author |-> SampleText(b).author,
     description |-> SampleText(b).description, genre |-> SampleText(b).genre,
     price |-> InitPrice(b), stock |-> stock, stock_threshold |-> InitThreshold]

InitDb ==
    /\ books \in {[b \in InitBookIds |-> SampleBook(b, st[b])] :
                     st \in [InitBookIds -> 0..MaxStock]}
    /\ next_book_id = 3
    /\ orders = <<>>
    /\ order_items = <<>>
    /\ notifications = <<>>
    /\ writer = NoOne

\* a response that lists no books
NoBody == [header |-> <<>>, rows |-> {}]

InitHandlers ==
    /\ pc = [s \in Sessions |-> "idle"]
    /\ idx = [s \in Sessions |-> 0]
    /\ cart_items = [s \in Sessions |-> <<>>]
    /\ total = [s \in Sessions |-> Fin(0)]
    /\ order_id = [s \in Sessions |-> NoOrderId]
    /\ outcome = [s \in Sessions |-> "none"]
    /\ admin_outcome = "none"
    /\ admin_page = {}
    /\ body = NoBody

\* two customers who have filled their carts
Init ==
    /\ InitDb
    /\ InitHandlers
    /\ admin_id = NoAdmin
    /\ cart \in [Sessions -> Carts(1..MaxQty)]

TypeOK ==
    /\ DOMAIN books \subseteq BookIds
    /\ writer \in Sessions \cup {NoOne}
    /\ pc \in [Sessions -> {"idle", "read", "write", "commit", "notify"}]
    /\ outcome \in [Sessions -> Outcomes]

----------------
(* Cart: src/app_enhanced.py add_to_cart, update_cart, remove_from_cart *)

\* an add that overwrites the quantity of a line already there
CartAddOverwrite(c, b, q) ==
    IF CartPos(c, b) # 0
    THEN [c EXCEPT ![CartPos(c, b)].quantity = q]
    ELSE Append(c, [book_id |-> b, quantity |-> q])

\* cart[book_id] += quantity, or a new key at the end of the dict
CartAdd(c, b, q) ==
    IF CartPos(c, b) # 0
    THEN [c EXCEPT ![CartPos(c, b)].quantity = @ + q]
    ELSE Append(c, [book_id |-> b, quantity |-> q])

\* a set-quantity that stores whatever it is given
CartSetStoresAny(c, b, q) ==
    IF CartPos(c, b) = 0 THEN c ELSE [c EXCEPT ![CartPos(c, b)].quantity = q]

\* quantity > 0 stores it, anything else deletes the key; absent keys are ignored
CartSet(c, b, q) ==
    IF CartPos(c, b) = 0 THEN c
    ELSE IF q > 0 THEN [c EXCEPT ![CartPos(c, b)].quantity = q]
    ELSE RemoveAt(c, CartPos(c, b))

CartRemove(c, b) == IF CartPos(c, b) = 0 THEN c ELSE RemoveAt(c, CartPos(c, b))

InQtyBound(c) == \A i \in 1..Len(c) : c[i].quantity \in (0 - MaxQty)..MaxQty

add_to_cart(s, b, q) ==
    /\ pc[s] = "idle"
    /\ InQtyBound(CartAdd(cart[s], b, q))
    /\ cart' = [cart EXCEPT ![s] = CartAdd(cart[s], b, q)]
    /\ outcome' = [outcome EXCEPT ![s] = "added"]
    /\ UNCHANGED <<dbvars, writer, pc, localvars, adminvars>>

update_cart(s, b, q) ==
    /\ pc[s] = "idle"
    /\ cart' = [cart EXCEPT ![s] = CartSet(cart[s], b, q)]
    /\ outcome' = [outcome EXCEPT ![s] =
                      IF CartPos(cart[s], b) = 0 THEN "none"
                      ELSE IF q > 0 THEN "updated" ELSE "removed"]
    /\ UNCHANGED <<dbvars, writer, pc, localvars, adminvars>>

remove_from_cart(s, b) ==
    /\ pc[s] = "idle"
    /\ CartPos(cart[s], b) # 0
    /\ cart' = [cart EXCEPT ![s] = CartRemove(cart[s], b)]
    /\ outcome' = [outcome EXCEPT ![s] = "removed"]
    /\ UNCHANGED <<dbvars, writer, pc, localvars, adminvars>>

----------------------------------------------------------------------------
(* Cart page: src/app_enhanced.py view_cart *)

\* The loop of lines 163-187 from line i on, over the live dict c.  A line
\* within stock is shown; a line above stock is set to the stock and shown
\* when stock > 0; with stock <= 0 its key is deleted, and the next step of
\* the dict iterator raises RuntimeError (dictionary changed size during
\* iteration).  A line whose book is gone is skipped.
RECURSIVE ViewLoop(_, _, _, _)
ViewLoop(c, i, items, warnings) ==
    IF i > Len(c)
    THEN [cart |-> c, items |-> items, warnings |-> warnings, crashed |-> FALSE]
    ELSE LET b == c[i].book_id
             q == c[i].quantity
         IN IF b \notin DOMAIN books
            THEN ViewLoop(c, i + 1, items, warnings)
            ELSE IF books[b].stock >= q
            THEN ViewLoop(c, i + 1, Append(items, [book_id |-> b, quantity |-> q]), warnings)
            ELSE IF books[b].stock > 0
            THEN ViewLoop([c EXCEPT ![i].quantity = books[b].stock], i + 1,
                          Append(items, [book_id |-> b, quantity |-> books[b].stock]),
                          warnings + 1)
            ELSE [cart |-> RemoveAt(c, i), items |-> items,
                  warnings |-> warnings + 1, crashed |-> TRUE]

ViewCart(c) == ViewLoop(c, 1, <<>>, 0)

\* GET /cart.  When the loop raises, the changed session is written back by
\* the error response, or not at all when the exception is propagated to the
\* debugger (app.run(debug=True)).
view_cart(s) ==
    /\ pc[s] = "idle"
    /\ LET r == ViewCart(cart[s])
       IN IF r.crashed
          THEN /\ cart' \in {[cart EXCEPT ![s] = r.cart], cart}
               /\ outcome' = [outcome EXCEPT ![s] = "RuntimeError"]
          ELSE /\ cart' = [cart EXCEPT ![s] = r.cart]
               /\ outcome' = [outcome EXCEPT ![s] = "cart"]
    /\ UNCHANGED <<dbvars, writer, pc, localvars, adminvars>>

----------------------------------------------------------------------------
(* Checkout: src/app_enhanced.py checkout, POST branch *)

InFlight == {s \in Sessions : pc[s] # "idle"}

ResetLocals(s) ==
    /\ idx' = [idx EXCEPT ![s] = 0]
    /\ cart_items' = [cart_items EXCEPT ![s] = <<>>]
    /\ total' = [total EXCEPT ![s] = Fin(0)]
    /\ order_id' = [order_id EXCEPT ![s] = NoOrderId]

\* a stock check that only asks whether any copy is left
StockSufficesAnyLeft(book, quantity) == book.stock > 0

\* the stock check of one cart line against the row just fetched
StockSuffices(book, quantity) == book.stock >= quantity

\* a line total that forgets the quantity
LineTotalUnit(book, quantity) == book.price

\* item_total = book['price'] * quantity
LineTotal(book, quantity) == FMul(book.price, quantity)

\* lines 219-234: an empty cart redirects; otherwise the read loop starts
CheckoutBegin(s) ==
    /\ pc[s] = "idle"
    /\ Len(orders) + Cardinality(InFlight) < MaxOrders
    /\ IF cart[s] = <<>>
       THEN /\ outcome' = [outcome EXCEPT ![s] = "empty"]
            /\ UNCHANGED <<pc, localvars>>
       ELSE /\ outcome' = [outcome EXCEPT ![s] = "none"]
            /\ pc' = [pc EXCEPT ![s] = "read"]
            /\ idx' = [idx EXCEPT ![s] = 1]
            /\ cart_items' = [cart_items EXCEPT ![s] = <<>>]
            /\ total' = [total EXCEPT ![s] = Fin(0)]
            /\ order_id' = [order_id EXCEPT ![s] = NoOrderId]
    /\ UNCHANGED <<dbvars, writer, cart, adminvars>>

\* lines 235-248: one iteration of the read loop (one SELECT)
CheckoutRead(s) ==
    /\ pc[s] = "read"
    /\ LET line == cart[s][idx[s]]
           b == line.book_id
       IN IF b \in DOMAIN books /\ StockSuffices(books[b], line.quantity)
          THEN /\ cart_items' = [cart_items EXCEPT ![s] =
                     Append(@, [book_id |-> b, quantity |-> line.quantity,
                                price |-> books[b].price])]
               /\ total' = [total EXCEPT ![s] = FAdd(@, LineTotal(books[b], line.quantity))]
               /\ idx' = [idx EXCEPT ![s] = @ + 1]
               /\ pc' = [pc EXCEPT ![s] = IF idx[s] = Len(cart[s]) THEN "write" ELSE "read"]
               /\ UNCHANGED <<order_id, outcome>>
          ELSE \* flash(... book["title"] ...): a missing row is None and raises TypeError
               /\ outcome' = [outcome EXCEPT ![s] =
                     IF b \in DOMAIN books THEN "insufficient" ELSE "TypeError"]
               /\ pc' = [pc EXCEPT ![s] = "idle"]
               /\ ResetLocals(s)
    /\ UNCHANGED <<dbvars, writer, cart, adminvars>>

\* an orders table that takes every row
OrderInsertAllowedAlways(oid, amount) == TRUE

\* the orders table without the UNIQUE constraint on order_id
OrderInsertAllowedNoUnique(oid, amount) == amount.k # "nan"

\* orders.order_id is UNIQUE, orders.total_amount is NOT NULL (NaN binds as NULL)
OrderInsertAllowed(oid, amount) ==
    /\ \A i \in 1..Len(orders) : orders[i].order_id # oid
    /\ amount.k # "nan"

\* lines 250-256: uuid4()[:8], then INSERT INTO orders opens the write transaction
CheckoutInsert(s) ==
    /\ pc[s] = "write"
    /\ writer = NoOne
    /\ \E oid \in OrderIds :
         IF OrderInsertAllowed(oid, total[s])
         THEN /\ writer' = s
              /\ order_id' = [order_id EXCEPT ![s] = oid]
              /\ pc' = [pc EXCEPT ![s] = "commit"]
              /\ UNCHANGED <<idx, cart_items, total, outcome>>
         ELSE \* IntegrityError: the handler dies with the transaction that
              \* the INSERT began still open.  Nothing closes the connection:
              \* it is rolled back when the object is freed, at once if the
              \* server drops the traceback, and not at all while the
              \* debugger keeps the handler's frame (app.run(debug=True)).
              /\ outcome' = [outcome EXCEPT ![s] = "IntegrityError"]
              /\ pc' = [pc EXCEPT ![s] = "idle"]
              /\ ResetLocals(s)
              /\ writer' \in {NoOne, s}
    /\ UNCHANGED <<dbvars, cart, adminvars>>

\* sqlite3.connect's busy timeout runs out while another connection writes
CheckoutInsertLocked(s) ==
    /\ pc[s] = "write"
    /\ writer # NoOne
    /\ outcome' = [outcome EXCEPT ![s] = "OperationalError"]
    /\ pc' = [pc EXCEPT ![s] = "idle"]
    /\ ResetLocals(s)
    /\ UNCHANGED <<dbvars, writer, cart, adminvars>>

OrderRow(s) ==
    [order_id |-> order_id[s], customer_name |-> s, total_amount |-> total[s],
     status |-> "pending"]

\* an item loop that writes its rows under no order's identifier
ItemRowsDetached(s) ==
    [i \in 1..Len(cart_items[s]) |->
        [order_id |-> NoOrderId, book_id |-> cart_items[s][i].book_id,
         quantity |-> cart_items[s][i].quantity, price |-> cart_items[s][i].price]]

\* an item loop that stops after the first item
ItemRowsFirstOnly(s) ==
    [i \in 1..(IF cart_items[s] = <<>> THEN 0 ELSE 1) |->
        [order_id |-> order_id[s], book_id |-> cart_items[s][i].book_id,
         quantity |-> cart_items[s][i].quantity, price |-> cart_items[s][i].price]]

\* an item loop that looks the price up again when it writes the item
ItemRowsCurrentPrice(s) ==
    [i \in 1..Len(cart_items[s]) |->
        [order_id |-> order_id[s], book_id |-> cart_items[s][i].book_id,
         quantity |-> cart_items[s][i].quantity,
         price |-> IF cart_items[s][i].book_id \in DOMAIN books
                   THEN books[cart_items[s][i].book_id].price
                   ELSE cart_items[s][i].price]]

ItemRows(s) ==
    [i \in 1..Len(cart_items[s]) |->
        [order_id |-> order_id[s], book_id |-> cart_items[s][i].book_id,
         quantity |-> cart_items[s][i].quantity, price |-> cart_items[s][i].price]]

\* a stock update that takes one copy per item whatever its quantity
StockAfterOnce(s, b) ==
    IF CartPos(cart_items[s], b) = 0 THEN books[b].stock ELSE books[b].stock - 1

\* UPDATE books SET stock = stock - ? WHERE id = ?, once per item
StockAfter(s, b) ==
    LET i == CartPos(cart_items[s], b)
    IN IF i = 0 THEN books[b].stock ELSE books[b].stock - cart_items[s][i].quantity

\* lines 258-269: the order_items INSERTs, the stock UPDATEs and the commit
CheckoutCommit(s) ==
    /\ pc[s] = "commit"
    /\ writer = s
    /\ orders' = Append(orders, OrderRow(s))
    /\ order_items' = order_items \o ItemRows(s)
    /\ books' = [b \in DOMAIN books |-> [books[b] EXCEPT !.stock = StockAfter(s, b)]]
    /\ writer' = NoOne
    /\ pc' = [pc EXCEPT ![s] = "notify"]
    /\ UNCHANGED <<next_book_id, notifications, cart, localvars, outcome, adminvars>>

\* Database.add_notification: INSERT and commit on a connection of its own
Notification(type, ref) == [type |-> type, ref |-> ref, is_read |-> FALSE]

\* a confirmation that clears the cart without telling the admin
CheckoutNotifySilent(s) ==
    /\ pc[s] = "notify"
    /\ writer = NoOne
    /\ cart' = [cart EXCEPT ![s] = <<>>]
    /\ outcome' = [outcome EXCEPT ![s] = "ok"]
    /\ pc' = [pc EXCEPT ![s] = "idle"]
    /\ ResetLocals(s)
    /\ UNCHANGED <<dbvars, writer, adminvars>>

\* lines 271-278: the new_order notification, then session.pop('cart')
CheckoutNotify(s) ==
    /\ pc[s] = "notify"
    /\ writer = NoOne
    /\ notifications' = Append(notifications, Notification("new_order", order_id[s]))
    /\ cart' = [cart EXCEPT ![s] = <<>>]
    /\ outcome' = [outcome EXCEPT ![s] = "ok"]
    /\ pc' = [pc EXCEPT ![s] = "idle"]
    /\ ResetLocals(s)
    /\ UNCHANGED <<books, next_book_id, orders, order_items, writer, adminvars>>

\* add_notification raises OperationalError (database is locked): nothing catches it
CheckoutNotifyLocked(s) ==
    /\ pc[s] = "notify"
    /\ writer # NoOne
    /\ outcome' = [outcome EXCEPT ![s] = "OperationalError"]
    /\ pc' = [pc EXCEPT ![s] = "idle"]
    /\ ResetLocals(s)
    /\ UNCHANGED <<dbvars, writer, cart, adminvars>>

----------------------------------------------------------------------------------------------------------------------------------------
(* Admin book forms: src/admin/routes.py add_book, edit_book, delete_book *)

\* str(n) for the integers a form field of the model carries
IntText == [n \in -2..9 |-> CASE n = -2 -> "-2" [] n = -1 -> "-1" [] n = 0 -> "0"
                              [] n = 1 -> "1" [] n = 2 -> "2" [] n = 3 -> "3"
                              [] n = 4 -> "4" [] n = 5 -> "5" [] n = 6 -> "6"
                              [] n = 7 -> "7" [] n = 8 -> "8" [] n = 9 -> "9"]

\* int(text): the integer literals parse, anything else is a ValueError
ParseInt(text) ==
    IF \E n \in DOMAIN IntText : IntText[n] = text
    THEN [ok |-> TRUE, v |-> CHOOSE n \in DOMAIN IntText : IntText[n] = text]
    ELSE [ok |-> FALSE, v |-> 0]

\* text.strip()
Strip(text) ==
    CASE text = " inf " -> "inf"
      [] text = " 2 " -> "2"
      [] OTHER -> text

\* text.lower()
Lower(text) ==
    CASE text = "NaN" -> "nan"
      [] text = "Infinity" -> "infinity"
      [] text = "+Inf" -> "+inf"
      [] OTHER -> text

\* the spellings add_book and edit_book refuse before parsing
PriceSentinels == {"nan", "inf", "-inf", "infinity", "-infinity"}

\* float(text): decimal literals, the IEEE spellings in any case with an
\* optional sign, and overflow to infinity; anything else is a ValueError
ParseFloat(text) ==
    LET t == Lower(text)
    IN CASE t \in {"nan", "+nan", "-nan"} -> [ok |-> TRUE, v |-> NaN]
         [] t \in {"inf", "+inf", "infinity", "+infinity", "1e999"} -> [ok |-> TRUE, v |-> PosInf]
         [] t \in {"-inf", "-infinity", "-1e999"} -> [ok |-> TRUE, v |-> NegInf]
         [] ParseInt(t).ok -> [ok |-> TRUE, v |-> Fin(ParseInt(t).v)]
         [] OTHER -> [ok |-> FALSE, v |-> NaN]

\* price < 0
FNegative(p) == (p.k = "fin" /\ p.v < 0) \/ p.k = "-inf"

\* a price check that lets any text through to float()
PriceRefusedNever(price_str) == FALSE

\* line 122 / 193: the sentinel test on the stripped, lower-cased text
PriceRefused(price_str) == Lower(Strip(price_str)) \in PriceSentinels

\* lines 120-151 / 191-222: the three fields in order; the first bad one
\* re-renders the form
FormValid(price_str, stock_str, threshold_str) ==
    /\ ~PriceRefused(price_str)
    /\ ParseFloat(Strip(price_str)).ok
    /\ ~FNegative(ParseFloat(Strip(price_str)).v)
    /\ ParseInt(stock_str).ok /\ ParseInt(stock_str).v >= 0
    /\ ParseInt(threshold_str).ok /\ ParseInt(threshold_str).v >= 0

\* a row whose stock and stock_threshold values have changed places
FormRowSwapped(text, price_str, stock_str, threshold_str) ==
    [title |-> text.title, author |-> text.author,
     description |-> text.description, genre |-> text.genre,
     price |-> ParseFloat(Strip(price_str)).v,
     stock |-> ParseInt(threshold_str).v,
     stock_threshold |-> ParseInt(stock_str).v]

\* the values bound to the INSERT of lines 163-165 / the UPDATE of 244-246:
\* the text fields as submitted, the numbers as parsed
FormRow(text, price_str, stock_str, threshold_str) ==
    [title |-> text.title, author |-> text.author,
     description |-> text.description, genre |-> text.genre,
     price |-> ParseFloat(Strip(price_str)).v,
     stock |-> ParseInt(stock_str).v,
     stock_threshold |-> ParseInt(threshold_str).v]

\* title, author, description and genre of a form; the text of a new book
NewText == [title |-> "Dune", author |-> "Frank Herbert", description |-> "", genre |-> ""]

\* the text fields the edit form shows for a row
TextOf(row) ==
    [title |-> row.title, author |-> row.author,
     description |-> row.description, genre |-> row.genre]

\* books.price is REAL NOT NULL, and sqlite3 binds NaN as NULL
BookRowAllowed(row) == row.price.k # "nan"

AdminIdle ==
    /\ writer = NoOne
    /\ Len(notifications) < MaxNotifications

\* the response of an admin request: its outcome and the tables it shows
Respond(result, tables) ==
    /\ admin_outcome' = result
    /\ admin_page' = tables
    /\ body' = NoBody

\* the response of an admin request that lists books
RespondRows(result, tables, header, rows) ==
    /\ admin_outcome' = result
    /\ admin_page' = tables
    /\ body' = [header |-> header, rows |-> rows]

\* login_required without admin_id in the session: the view function is not
\* called, the response is the redirect to the login page
LoginRedirect ==
    /\ Respond("login", {})
    /\ UNCHANGED dbvars

\* POST /admin/login: the admins table holds the default admin
login(username, password) ==
    /\ IF username = "admin" /\ password = "admin123"
       THEN /\ admin_id' = AdminUser
            /\ Respond("welcome", {})
       ELSE /\ admin_id' = admin_id
            /\ Respond("invalid", {})
    /\ UNCHANGED <<dbvars, writer, shopvars>>

\* GET /admin/logout
logout ==
    /\ admin_id' = NoAdmin
    /\ Respond("logout", {})
    /\ UNCHANGED <<dbvars, writer, shopvars>>

\* POST /admin/books/add
add_book(text, price_str, stock_str, threshold_str) ==
    /\ AdminIdle
    /\ next_book_id <= MaxBooks
    /\ IF admin_id = NoAdmin
       THEN LoginRedirect
       ELSE IF ~FormValid(price_str, stock_str, threshold_str)
       THEN /\ Respond("validation", {})
            /\ UNCHANGED dbvars
       ELSE IF ~BookRowAllowed(FormRow(text, price_str, stock_str, threshold_str))
       THEN /\ Respond("IntegrityError", {})
            /\ UNCHANGED dbvars
       ELSE /\ books' = [b \in DOMAIN books \cup {next_book_id} |->
                           IF b = next_book_id
                           THEN FormRow(text, price_str, stock_str, threshold_str)
                           ELSE books[b]]
            /\ next_book_id' = next_book_id + 1
            /\ notifications' = Append(notifications, Notification("book_added", next_book_id))
            /\ Respond("ok", {})
            /\ UNCHANGED <<orders, order_items>>
    /\ UNCHANGED <<writer, shopvars, admin_id>>

\* lines 239-242: the low-stock alert of an update
LowStockAlert(old_stock, stock, stock_threshold) ==
    stock <= stock_threshold /\ old_stock > stock_threshold

\* POST /admin/books/<book_id>/edit
edit_book(book_id, text, price_str, stock_str, threshold_str) ==
    /\ AdminIdle
    /\ IF admin_id = NoAdmin
       THEN LoginRedirect
       ELSE IF book_id \notin DOMAIN books
       THEN /\ Respond("notfound", {})
            /\ UNCHANGED dbvars
       ELSE IF ~FormValid(price_str, stock_str, threshold_str)
       THEN \* the form is rendered again with the row
            /\ Respond("validation", {"books"})
            /\ UNCHANGED dbvars
       ELSE LET row == FormRow(text, price_str, stock_str, threshold_str)
                alert == LowStockAlert(books[book_id].stock, row.stock, row.stock_threshold)
                log == IF alert
                       THEN Append(notifications, Notification("low_stock", book_id))
                       ELSE notifications
            IN \* the alert is committed by add_notification before the UPDATE runs
               IF ~BookRowAllowed(row)
               THEN /\ notifications' = log
                    /\ Respond("IntegrityError", {})
                    /\ UNCHANGED <<books, next_book_id, orders, order_items>>
               ELSE /\ notifications' = log
                    /\ books' = [books EXCEPT ![book_id] = row]
                    /\ Respond("ok", {})
                    /\ UNCHANGED <<next_book_id, orders, order_items>>
    /\ UNCHANGED <<writer, shopvars, admin_id>>

\* POST /admin/books/<book_id>/delete
delete_book(book_id) ==
    /\ AdminIdle
    /\ IF admin_id = NoAdmin
       THEN LoginRedirect
       ELSE IF book_id \in DOMAIN books
       THEN /\ books' = [b \in DOMAIN books \ {book_id} |-> books[b]]
            /\ notifications' = Append(notifications, Notification("book_deleted", book_id))
            /\ Respond("ok", {})
            /\ UNCHANGED <<next_book_id, orders, order_items>>
       ELSE /\ Respond("notfound", {})
            /\ UNCHANGED dbvars
    /\ UNCHANGED <<writer, shopvars, admin_id>>

----------------------------------------------------------------------------
(* Admin orders, notifications and pages: src/admin/routes.py *)

Statuses == {"pending", "shipped", "cancelled"}

\* a status update that removes the order instead
StatusSetDropsOrder(oid, new_status) ==
    SelectSeq(orders, LAMBDA o : o.order_id # oid)

\* UPDATE orders SET status = ? WHERE order_id = ?
StatusSet(oid, new_status) ==
    [i \in 1..Len(orders) |->
        IF orders[i].order_id = oid THEN [orders[i] EXCEPT !.status = new_status]
        ELSE orders[i]]

\* POST /admin/orders/<order_id>/update-status: the UPDATE, the commit, then
\* the order_updated notification, whether or not a row matched
update_order_status(oid, new_status) ==
    /\ AdminIdle
    /\ IF admin_id = NoAdmin
       THEN LoginRedirect
       ELSE /\ orders' = StatusSet(oid, new_status)
            /\ notifications' = Append(notifications, Notification("order_updated", oid))
            /\ Respond("ok", {})
            /\ UNCHANGED <<books, next_book_id, order_items>>
    /\ UNCHANGED <<writer, shopvars, admin_id>>

\* GET /admin/orders/<order_id>
order_detail(oid) ==
    /\ IF admin_id = NoAdmin
       THEN LoginRedirect
       ELSE /\ IF \E i \in 1..Len(orders) : orders[i].order_id = oid
               THEN Respond("page", {"orders", "order_items", "books"})
               ELSE Respond("notfound", {})
            /\ UNCHANGED dbvars
    /\ UNCHANGED <<writer, shopvars, admin_id>>

\* a mark-read that clears the notification away
MarkReadRemoves(n) ==
    IF n \in 1..Len(notifications) THEN RemoveAt(notifications, n) ELSE notifications

\* a mark-read that flips the flag
MarkReadToggle(n) ==
    [i \in 1..Len(notifications) |->
        IF i = n THEN [notifications[i] EXCEPT !.is_read = ~@] ELSE notifications[i]]

\* Database.mark_notification_read: UPDATE notifications SET is_read = TRUE
\* WHERE id = ?; the ids are the positions in the log
MarkRead(n) ==
    [i \in 1..Len(notifications) |->
        IF i = n THEN [notifications[i] EXCEPT !.is_read = TRUE] ELSE notifications[i]]

\* POST /admin/notifications/<notification_id>/read
mark_notification_read(n) ==
    /\ writer = NoOne
    /\ IF admin_id = NoAdmin
       THEN LoginRedirect
       ELSE /\ notifications' = MarkRead(n)
            /\ Respond("success", {})
            /\ UNCHANGED <<books, next_book_id, orders, order_items>>
    /\ UNCHANGED <<writer, shopvars, admin_id>>

\* the admin pages that only read, and the tables each of them queries
AdminViews ==
    [dashboard |-> {"books", "orders", "order_items", "notifications"},
     analytics_page |-> {"books", "orders", "order_items"},
     notifications |-> {"notifications"},
     books |-> {"books"},
     inventory |-> {"books"},
     orders |-> {"books", "orders", "order_items"},
     api_unread_notifications_count |-> {"notifications"},
     api_monthly_sales_data |-> {"orders"},
     api_genre_sales_data |-> {"books", "orders", "order_items"}]

\* a page that is served without looking at the session
admin_get_open(view) ==
    /\ Respond("page", AdminViews[view])
    /\ UNCHANGED <<dbvars, writer, shopvars, admin_id>>

\* books and inventory: SELECT * FROM books, every row is listed; the lists
\* of the other pages are left out
ViewRows(view) == IF view \in {"books", "inventory"} THEN DOMAIN books ELSE {}

\* GET of one of the read-only admin pages
admin_get(view) ==
    /\ IF admin_id = NoAdmin
       THEN LoginRedirect
       ELSE /\ RespondRows("page", AdminViews[view], <<>>, ViewRows(view))
            /\ UNCHANGED dbvars
    /\ UNCHANGED <<writer, shopvars, admin_id>>

CsvHeader ==
    <<"ID", "Title", "Author", "Genre", "Price", "Stock", "Stock Threshold",
      "Total Sold", "Total Revenue">>

\* GET /admin/inventory/export: the header line, then one line per row of
\* export_analytics_data()['books']. The rows are sqlite3.Row objects, which
\* have no method get: building the first line raises AttributeError and the
\* request ends with the server's error response.
export_inventory ==
    /\ IF admin_id = NoAdmin
       THEN LoginRedirect
       ELSE /\ IF DOMAIN books = {}
               THEN RespondRows("csv", {"books", "orders", "order_items"}, CsvHeader, {})
               ELSE Respond("AttributeError", {"books", "orders", "order_items"})
            /\ UNCHANGED dbvars
    /\ UNCHANGED <<writer, shopvars, admin_id>>

----------------------------------------------------------------------------
(* The storefront under load: the sessions check out concurrently *)

Checkout(s) ==
    \/ CheckoutBegin(s)
    \/ CheckoutRead(s)
    \/ CheckoutInsert(s)
    \/ CheckoutInsertLocked(s)
    \/ CheckoutCommit(s)
    \/ CheckoutNotify(s)
    \/ CheckoutNotifyLocked(s)

Next == \E s \in Sessions : Checkout(s)

Spec == Init /\ [][Next]_vars

\* every request handler that can take a step goes on
SpecLive == Init /\ [][Next]_vars /\ \A s \in Sessions : WF_vars(Checkout(s))

----------------------------------------------------------------------------
(* One customer filling, changing, viewing and checking out a cart *)

QtyInputs == {-1, 0, 1, 2}
Shopper == "s1"

InitCart ==
    /\ InitDb
    /\ InitHandlers
    /\ admin_id = NoAdmin
    /\ cart = [s \in Sessions |-> <<>>]

CartOps(s) ==
    \/ \E b \in InitBookIds, q \in QtyInputs : add_to_cart(s, b, q)
    \/ \E b \in InitBookIds, q \in QtyInputs : update_cart(s, b, q)
    \/ \E b \in InitBookIds : remove_from_cart(s, b)
    \/ view_cart(s)

\* a checkout with no other request in the way
SoloCheckout(s) ==
    \/ CheckoutBegin(s)
    \/ CheckoutRead(s)
    \/ CheckoutInsert(s)
    \/ CheckoutCommit(s)
    \/ CheckoutNotify(s)

NextCart ==
    \/ CartOps(Shopper)
    \/ (Len(orders) < MaxCartOrders /\ pc[Shopper] = "idle" /\ CheckoutBegin(Shopper))
    \/ (pc[Shopper] # "idle" /\ SoloCheckout(Shopper))

SpecCart == InitCart /\ [][NextCart]_vars

----------------------------------------------------------------------------
(* One customer's cart, with no checkout *)

NextBasket == CartOps(Shopper)

SpecBasket == InitCart /\ [][NextBasket]_vars

----------------------------------------------------------------------------
(* The catalogue under the admin's book forms *)

PriceInputs == {"2", " 2 ", "nan", "NaN", " inf ", "-inf", "+inf", "+nan", "1e999", "-1", "abc"}
StockInputs == {"0", "2", "-1", "1.5"}
ThresholdInputs == {"1", "-1", ""}

\* the admin has logged in
InitCatalogue ==
    /\ InitDb
    /\ InitHandlers
    /\ admin_id = AdminUser
    /\ cart = [s \in Sessions |-> <<>>]

NextCatalogue ==
    \/ \E p \in PriceInputs, n \in StockInputs, t \in ThresholdInputs : add_book(NewText, p, n, t)
    \/ \E b \in BookIds, p \in PriceInputs, n \in StockInputs, t \in ThresholdInputs :
          edit_book(b, NewText, p, n, t)
    \/ \E b \in BookIds : delete_book(b)

SpecCatalogue == InitCatalogue /\ [][NextCatalogue]_vars

----------------------------------------------------------------------------
(* One customer's order while the admin reprices and removes books *)

RepriceInputs == {"3", "+inf"}

InitAdmin ==
    /\ InitDb
    /\ InitHandlers
    /\ admin_id = AdminUser
    /\ cart \in [Sessions -> Carts(-1..MaxQty)]
    /\ \A s \in Sessions \ {Shopper} : cart[s] = <<>>

\* the edit form comes prefilled with the row; the admin changes the price
Reprice(b, p) ==
    /\ b \in DOMAIN books
    /\ books[b].stock \in DOMAIN IntText
    /\ edit_book(b, TextOf(books[b]), p, IntText[books[b].stock], IntText[books[b].stock_threshold])

NextAdmin ==
    \/ SoloCheckout(Shopper)
    \/ \E b \in InitBookIds, p \in RepriceInputs : Reprice(b, p)
    \/ \E b \in InitBookIds : delete_book(b)

SpecAdmin == InitAdmin /\ [][NextAdmin]_vars

\* the scenario of two customers after the last copy of one book
InitRace ==
    /\ Init
    /\ \E x \in InitBookIds :
         /\ books[x].stock = 1
         /\ \A s \in Sessions : cart[s] = <<[book_id |-> x, quantity |-> 1]>>

SpecRace == InitRace /\ [][Next]_vars

----------------------------------------------------------------------------
(* Two customers ordering while the logged-in admin works on orders and books *)

\* every book is in full stock; one customer wants a copy of book 1, the
\* other a copy of book 2
InitOrders ==
    /\ InitDb
    /\ InitHandlers
    /\ admin_id = AdminUser
    /\ \A b \in InitBookIds : books[b].stock = MaxStock
    /\ cart = [s \in Sessions |->
                  <<[book_id |-> IF s = Shopper THEN 1 ELSE 2, quantity |-> 1]>>]

NextOrders ==
    \/ \E s \in Sessions : Checkout(s)
    \/ \E b \in InitBookIds : Reprice(b, "3")
    \/ \E b \in InitBookIds : delete_book(b)
    \/ \E oid \in OrderIds, st \in Statuses \ {"pending"} : update_order_status(oid, st)

SpecOrders == InitOrders /\ [][NextOrders]_vars

----------------------------------------------------------------------------
(* The logged-in admin working on books and orders, some of which are not
   there, next to one customer's order *)

DeskPrices == {"3", "abc"}
DeskStocks == {"0", "2"}

\* every book is in full stock, the customer wants one copy of book 1
InitShop ==
    /\ InitDb
    /\ InitHandlers
    /\ \A b \in InitBookIds : books[b].stock = MaxStock
    /\ cart = [s \in Sessions |->
                  IF s = Shopper THEN <<[book_id |-> 1, quantity |-> 1]>> ELSE <<>>]

InitDesk ==
    /\ InitShop
    /\ admin_id = AdminUser

NextDesk ==
    \/ SoloCheckout(Shopper)
    \/ \E b \in BookIds, p \in DeskPrices, n \in DeskStocks : edit_book(b, NewText, p, n, "1")
    \/ \E b \in BookIds : delete_book(b)
    \/ \E oid \in OrderIds, st \in Statuses : update_order_status(oid, st)
    \/ \E oid \in OrderIds : order_detail(oid)

SpecDesk == InitDesk /\ [][NextDesk]_vars

----------------------------------------------------------------------------
(* The notification log under everything that writes to it *)

NotificationIds == 1..(MaxNotifications + 1)

NextLog ==
    \/ SoloCheckout(Shopper)
    \/ add_book(NewText, "3", "2", "1")
    \/ edit_book(1, NewText, "3", "0", "1")
    \/ delete_book(2)
    \/ \E oid \in OrderIds : update_order_status(oid, "shipped")
    \/ \E n \in NotificationIds : mark_notification_read(n)

SpecLog == InitDesk /\ [][NextLog]_vars

----------------------------------------------------------------------------
(* The admin routes with and without a login *)

Usernames == {"admin", "guest"}
Passwords == {"admin123", "letmein"}

InitGate ==
    /\ InitDb
    /\ InitHandlers
    /\ \A b \in InitBookIds : books[b].stock = MaxStock
    /\ cart = [s \in Sessions |-> <<>>]
    /\ admin_id = NoAdmin

NextGate ==
    \/ \E u \in Usernames, pw \in Passwords : login(u, pw)
    \/ logout
    \/ add_book(NewText, "3", "2", "1")
    \/ \E b \in BookIds : edit_book(b, NewText, "3", "0", "1")
    \/ \E b \in BookIds : delete_book(b)
    \/ \E oid \in OrderIds : update_order_status(oid, "shipped")
    \/ \E oid \in OrderIds : order_detail(oid)
    \/ \E n \in NotificationIds : mark_notification_read(n)
    \/ \E view \in DOMAIN AdminViews : admin_get(view)
    \/ export_inventory

SpecGate == InitGate /\ [][NextGate]_vars

----------------------------------------------------------------------------
(* New books on the shelf: valid forms, and the row a later fetch returns *)

\* book_detail / edit_book GET: SELECT * FROM books WHERE id = ?
NoRow == [missing |-> TRUE]
FetchBook(b) == IF b \in DOMAIN books THEN books[b] ELSE NoRow

BookTexts ==
    {NewText,
     [title |-> " dune ", author |-> "F. Herbert", description |-> "Sand.", genre |-> "Science Fiction"]}

\* valid price fields and the amount each stands for
PriceForms ==
    {[text |-> "0", amount |-> 0], [text |-> "2", amount |-> 2],
     [text |-> " 2 ", amount |-> 2], [text |-> "3", amount |-> 3]}

ShelfCounts == {0, 2}

NextShelf ==
    \/ \E text \in BookTexts, p \in PriceForms, n \in ShelfCounts, th \in ShelfCounts :
          add_book(text, p.text, IntText[n], IntText[th])
    \/ \E b \in BookIds : delete_book(b)

SpecShelf == InitDesk /\ [][NextShelf]_vars

----------------------------------------------------------------------------
(* One customer filling a cart while both customers check out *)

\* the other customer's cart holds a copy of book 1
InitTill ==
    /\ InitDb
    /\ InitHandlers
    /\ admin_id = NoAdmin
    /\ \A b \in InitBookIds : books[b].stock = MaxStock
    /\ cart = [s \in Sessions |->
                  IF s = Shopper THEN <<>> ELSE <<[book_id |-> 1, quantity |-> 1]>>]

NextTill ==
    \/ \E b \in InitBookIds : add_to_cart(Shopper, b, 1)
    \/ \E b \in InitBookIds : remove_from_cart(Shopper, b)
    \/ \E b \in InitBookIds : update_cart(Shopper, b, 2)
    \/ view_cart(Shopper)
    \/ \E s \in Sessions : Checkout(s)

SpecTill == InitTill /\ [][NextTill]_vars

----------------------------------------------------------------------------
(* Sales figures: src/utils/analytics.py *)

RECURSIVE SumQuantity(_)
SumQuantity(items) ==
    IF items = <<>> THEN 0 ELSE Head(items).quantity + SumQuantity(Tail(items))

\* SUM(oi.quantity * oi.price)
RECURSIVE SumRevenue(_)
SumRevenue(items) ==
    IF items = <<>> THEN Fin(0)
    ELSE FAdd(FMul(Head(items).price, Head(items).quantity), SumRevenue(Tail(items)))

\* ... JOIN order_items oi ON b.id = oi.book_id
ItemsOf(b) == SelectSeq(order_items, LAMBDA it : it.book_id = b)

\* export_analytics_data: books LEFT JOIN order_items LEFT JOIN orders ON
\* oi.order_id = o.order_id AND o.status != 'cancelled', GROUP BY b.id.  The
\* status test sits in the join condition: an item of a cancelled order
\* keeps its row, only the columns of o are NULL in it, and the sums are
\* taken over the columns of oi.
export_analytics_data(b) ==
    [total_sold |-> SumQuantity(ItemsOf(b)), total_revenue |-> SumRevenue(ItemsOf(b))]

\* get_top_selling_books: books JOIN order_items JOIN orders
\* WHERE o.status != 'cancelled', GROUP BY b.id
SoldItemsOf(b) ==
    SelectSeq(ItemsOf(b),
              LAMBDA it : \E i \in 1..Len(orders) :
                             /\ orders[i].order_id = it.order_id
                             /\ orders[i].status # "cancelled")

\* the books the query has a row for (its LIMIT is above MaxBooks)
TopSelling == {b \in DOMAIN books : SoldItemsOf(b) # <<>>}

get_top_selling_books(b) ==
    [total_sold |-> SumQuantity(SoldItemsOf(b)), total_revenue |-> SumRevenue(SoldItemsOf(b))]

\* both customers want a copy of book 1; the admin ships and cancels orders
InitSales ==
    /\ InitDb
    /\ InitHandlers
    /\ admin_id = AdminUser
    /\ \A b \in InitBookIds : books[b].stock = MaxStock
    /\ cart = [s \in Sessions |-> <<[book_id |-> 1, quantity |-> 1]>>]

NextSales ==
    \/ \E s \in Sessions : Checkout(s)
    \/ \E oid \in OrderIds, st \in Statuses : update_order_status(oid, st)

SpecSales == InitSales /\ [][NextSales]_vars

----------------------------------------------------------------------------
(* The storefront lists: index and search *)

\* a stock test that every row passes
InStockAlways(b) == TRUE

\* WHERE stock > 0
InStock(b) == books[b].stock > 0

\* text LIKE '%needle%': needle occurs in text, letters compared without case
Like(needle, text) ==
    CASE needle = "" -> TRUE
      [] needle = "an" -> text \in {"A classic American novel", "Frank Herbert", "Sand."}
      [] needle = "fic" -> text \in {"Fiction", "Science Fiction"}
      [] needle = "harper" -> text = "Harper Lee"
      [] OTHER -> FALSE

\* a <= b on REAL values; a comparison with NULL selects nothing
FLeq(a, b) ==
    /\ a.k # "nan" /\ b.k # "nan"
    /\ \/ a.k = "-inf"
       \/ b.k = "inf"
       \/ a.k = "fin" /\ b.k = "fin" /\ a.v <= b.v

\* GET /: SELECT * FROM books WHERE stock > 0
index ==
    /\ body' = [header |-> <<>>, rows |-> {b \in DOMAIN books : InStock(b)}]
    /\ UNCHANGED <<dbvars, writer, shopvars, admin_id, admin_outcome, admin_page>>

\* the WHERE clause search builds: the stock test and one more term for
\* every filter that is not empty
SearchMatches(b, q, genre, author, min_price, max_price) ==
    /\ InStock(b)
    /\ q # "" => \/ Like(q, books[b].title)
                 \/ Like(q, books[b].author)
                 \/ Like(q, books[b].description)
    /\ genre # "" => Like(genre, books[b].genre)
    /\ author # "" => Like(author, books[b].author)
    /\ min_price # "" => FLeq(ParseFloat(min_price).v, books[b].price)
    /\ max_price # "" => FLeq(books[b].price, ParseFloat(max_price).v)

\* GET /search: float() of a price bound that is no number is not caught,
\* the response is the server's error page
search(q, genre, author, min_price, max_price) ==
    /\ IF \/ min_price # "" /\ ~ParseFloat(min_price).ok
          \/ max_price # "" /\ ~ParseFloat(max_price).ok
       THEN body' = NoBody
       ELSE body' = [header |-> <<>>,
                     rows |-> {b \in DOMAIN books :
                                 SearchMatches(b, q, genre, author, min_price, max_price)}]
    /\ UNCHANGED <<dbvars, writer, shopvars, admin_id, admin_outcome, admin_page>>

QueryInputs == {"", "an"}
GenreInputs == {"", "fic"}
AuthorInputs == {"", "harper"}
MinPriceInputs == {"", "3"}
MaxPriceInputs == {"", "2", "abc"}
CatalogueViews == {"books", "inventory"}

NextStore ==
    \/ index
    \/ \E q \in QueryInputs, g \in GenreInputs, a \in AuthorInputs,
          lo \in MinPriceInputs, hi \in MaxPriceInputs : search(q, g, a, lo, hi)
    \/ \E view \in CatalogueViews : admin_get(view)
    \/ \E n \in ShelfCounts : add_book(NewText, "3", IntText[n], "1")
    \/ \E b \in InitBookIds : delete_book(b)

\* each sample book is either sold out or in full stock
InitStore ==
    /\ InitCatalogue
    /\ \A b \in InitBookIds : books[b].stock \in {0, MaxStock}

SpecStore == InitStore /\ [][NextStore]_vars

----------------------------------------------------------------------------
(* Properties *)

\* the step is one of session s's handler
StepBy(s) ==
    \/ pc'[s] # pc[s]
    \/ idx'[s] # idx[s]
    \/ outcome'[s] # outcome[s]
    \/ cart'[s] # cart[s]

Quiescent == \A s \in Sessions : pc[s] = "idle"
Errors == {"TypeError", "IntegrityError", "OperationalError"}
HasOrder(s) == \E i \in 1..Len(orders) : orders[i].customer_name = s

\* C1: every book's stock is >= 0 in every reachable state, under any
\* interleaving of concurrent checkouts.
C1_StockNeverNegative == \A b \in DOMAIN books : books[b].stock >= 0

\* C2: stock 1 of book X and two sessions each asking for one X: when both
\* checkouts have answered, exactly one has created an order and the other
\* was refused for insufficient stock.
C2_ExactlyOneWins ==
    (Quiescent /\ \A s \in Sessions : outcome[s] \in {"ok", "insufficient"})
    => /\ Len(orders) = 1
       /\ \E s \in Sessions :
            /\ outcome[s] = "ok" /\ HasOrder(s)
            /\ \A t \in Sessions \ {s} : outcome[t] = "insufficient" /\ ~HasOrder(t)

\* the line the read loop of s is at asks for more than the book's stock
LineExceedsStock(s) ==
    /\ pc[s] = "read"
    /\ cart[s][idx[s]].book_id \in DOMAIN books
    /\ cart[s][idx[s]].quantity > books[cart[s][idx[s]].book_id].stock

\* C3: a checkout with a line whose quantity exceeds the book's stock
\* creates no order, no order item and changes no stock, wherever the line
\* stands in the cart: the read loop writes nothing, a failing line ends the
\* handler with the insufficient-stock outcome, and the writes start only
\* after the last line has passed.
C3_FailingLineAbortsWhole ==
    [][\A s \in Sessions :
         (StepBy(s) /\ pc[s] = "read") =>
            /\ orders' = orders /\ order_items' = order_items /\ books' = books
            /\ LineExceedsStock(s) => (pc'[s] = "idle" /\ outcome'[s] = "insufficient")
            /\ pc'[s] = "write" => idx[s] = Len(cart[s])]_vars

C3_Witness ==
    \E s \in Sessions :
        /\ pc[s] = "idle" /\ outcome[s] = "insufficient"
        /\ Len(cart[s]) = 2
        /\ books[cart[s][1].book_id].stock >= cart[s][1].quantity
        /\ books[cart[s][2].book_id].stock < cart[s][2].quantity
        /\ orders = <<>> /\ order_items = <<>>

ExpectedItems(s) ==
    [i \in 1..Len(cart_items[s]) |->
        [order_id |-> order_id[s], book_id |-> cart_items[s][i].book_id,
         quantity |-> cart_items[s][i].quantity, price |-> cart_items[s][i].price]]

ExpectedStock(s, b) ==
    IF \E i \in 1..Len(cart_items[s]) : cart_items[s][i].book_id = b
    THEN books[b].stock
         - (CHOOSE q \in (0 - MaxQty)..MaxQty :
                \E i \in 1..Len(cart_items[s]) :
                    cart_items[s][i].book_id = b /\ cart_items[s][i].quantity = q)
    ELSE books[b].stock

RECURSIVE SoldIn(_, _)
SoldIn(items, b) ==
    IF items = <<>> THEN 0
    ELSE SoldIn(Tail(items), b) + (IF Head(items).book_id = b THEN Head(items).quantity ELSE 0)

LowStockNotes(b) ==
    Cardinality({i \in 1..Len(notifications) :
                    notifications[i].type = "low_stock" /\ notifications[i].ref = b})

\* C6: once sales have taken a book from above its stock_threshold to at or
\* below it, exactly one low_stock notification for the book is in the log,
\* however many further sales follow (only sales change stock here, so the
\* stock before them is stock + copies sold).
C6_OneLowStockPerCrossing ==
    \A b \in DOMAIN books :
        (/\ Quiescent
         /\ books[b].stock <= books[b].stock_threshold
         /\ books[b].stock + SoldIn(order_items, b) > books[b].stock_threshold)
        => LowStockNotes(b) = 1

\* C7: a failing notification append does not abort the checkout that
\* triggered it: the order stays, the cart is cleared and the customer gets
\* the confirmation.
C7_NotifyFailureDoesNotAbort ==
    [][\A s \in Sessions :
         (StepBy(s) /\ pc[s] = "notify" /\ notifications' = notifications) =>
            /\ cart'[s] = <<>>
            /\ outcome'[s] = "ok"
            /\ \E i \in 1..Len(orders') : orders'[i].order_id = order_id[s]]_vars

\* C10: no two rows of the orders table carry the same order_id.
C10_OrderIdsUnique ==
    \A i \in 1..Len(orders), j \in 1..Len(orders) :
        i # j => orders[i].order_id # orders[j].order_id

C10_Witness ==
    \E s \in Sessions :
        /\ outcome[s] = "IntegrityError" /\ cart[s] # <<>>
        /\ Len(orders) = 1

\* C8: every row of order_items has a quantity >= 1.
C8_ItemQuantitiesPositive ==
    \A i \in 1..Len(order_items) : order_items[i].quantity >= 1

\* the line totals of the items of order oid, in insertion order
RECURSIVE ItemSum(_, _)
ItemSum(items, oid) ==
    IF items = <<>> THEN Fin(0)
    ELSE LET last == items[Len(items)]
             rest == ItemSum(SubSeq(items, 1, Len(items) - 1), oid)
         IN IF last.order_id = oid THEN FAdd(rest, FMul(last.price, last.quantity)) ELSE rest

\* C5: every order's total_amount equals the sum of quantity * price over
\* its order items, in every state after its checkout, whatever happens to
\* the books' prices and to the books afterwards.
C5_TotalIsSumOfItems ==
    \A i \in 1..Len(orders) :
        FEq(orders[i].total_amount, ItemSum(order_items, orders[i].order_id))

C5_Witness ==
    \E i \in 1..Len(order_items) :
        /\ order_items[i].quantity = 2
        /\ \/ order_items[i].book_id \notin DOMAIN books
           \/ /\ order_items[i].book_id \in DOMAIN books
              /\ books[order_items[i].book_id].price # order_items[i].price
        /\ \E j \in 1..Len(order_items) : j # i /\ order_items[j].order_id = order_items[i].order_id

\* C9: every stored book has a finite, non-negative price and a
\* non-negative stock and stock_threshold, because a form with a non-finite,
\* negative or unparseable price, or a negative or non-integer stock or
\* stock_threshold, is refused.
C9_StoredBooksAreValid ==
    \A b \in DOMAIN books :
        /\ books[b].price.k = "fin" /\ books[b].price.v >= 0
        /\ books[b].stock >= 0
        /\ books[b].stock_threshold >= 0

Min(a, b) == IF a < b THEN a ELSE b

\* C11: the cart page of a cart of positive quantities completes normally
\* and leaves, for every line whose book exists, the quantity
\* min(requested, stock) when the book has stock, and no line at all when
\* the book has none.
C11_ViewCartMaterializes ==
    [][\A s \in Sessions :
         (view_cart(s) /\ \A i \in 1..Len(cart[s]) : cart[s][i].quantity >= 1) =>
            /\ outcome'[s] = "cart"
            /\ \A i \in 1..Len(cart[s]) :
                  LET b == cart[s][i].book_id
                      q == cart[s][i].quantity
                  IN b \in DOMAIN books =>
                        IF books[b].stock > 0
                        THEN \E j \in 1..Len(cart'[s]) :
                                cart'[s][j] = [book_id |-> b, quantity |-> Min(q, books[b].stock)]
                        ELSE \A j \in 1..Len(cart'[s]) : cart'[s][j].book_id # b]_vars

IsNewOrderNote(n, oid) == n.type = "new_order" /\ n.ref = oid

\* C12: the step that completes a checkout with the confirmation finds the
\* order already persisted and not yet announced, appends exactly one
\* new_order notification for it and empties the session's cart; the cart
\* changes in no other checkout step, the step that persists the order
\* appends no notification, and a checkout that ends for insufficient stock
\* appends no notification and leaves the cart as it was.
C12_SuccessNotifiesThenClears ==
    [][\A s \in Sessions :
         (StepBy(s) /\ pc[s] # "idle") =>
            /\ outcome'[s] = "ok" =>
                  /\ \E i \in 1..Len(orders) : orders[i].order_id = order_id[s]
                  /\ \A i \in 1..Len(notifications) : ~IsNewOrderNote(notifications[i], order_id[s])
                  /\ notifications' = Append(notifications, Notification("new_order", order_id[s]))
                  /\ cart'[s] = <<>>
            /\ cart'[s] # cart[s] =>
                  /\ outcome'[s] = "ok"
                  /\ Len(notifications') > 0
                  /\ IsNewOrderNote(notifications'[Len(notifications')], order_id[s])
            /\ Len(orders') > Len(orders) => (notifications' = notifications /\ cart' = cart)
            /\ outcome'[s] = "insufficient" =>
                  (notifications' = notifications /\ cart' = cart)]_vars

C12_Witness ==
    \E s \in Sessions, u \in Sessions :
        /\ outcome[s] = "ok" /\ cart[s] = <<>>
        /\ outcome[u] = "insufficient" /\ cart[u] # <<>>
        /\ Len(orders) = 1
        /\ Len(notifications) = 1 /\ notifications[1].type = "new_order"

\* C13: the orders table only grows; a row appears only in the commit of a
\* checkout that passed every line, as a pending order of that customer; an
\* existing row never changes except for its status, and its status changes
\* only in an update_order_status step.
C13_OrderLifecycle ==
    [][/\ Len(orders') >= Len(orders)
       /\ \A i \in 1..Len(orders) :
             /\ orders'[i] = [orders[i] EXCEPT !.status = orders'[i].status]
             /\ orders'[i].status # orders[i].status =>
                   \E oid \in OrderIds, st \in Statuses : update_order_status(oid, st)
       /\ Len(orders') > Len(orders) =>
             \E s \in Sessions :
                 /\ pc[s] = "commit" /\ pc'[s] = "notify"
                 /\ Len(cart_items[s]) = Len(cart[s])
                 /\ orders' = Append(orders, [order_id |-> order_id[s], customer_name |-> s,
                                               total_amount |-> total[s], status |-> "pending"])]_vars

C13_Witness ==
    /\ Len(orders) = 2
    /\ orders[1].status = "cancelled" /\ orders[2].status = "pending"
    /\ DOMAIN books # InitBookIds
    /\ \E i \in 1..Len(notifications) : notifications[i].type = "order_updated"

\* C15: an order item is written with the price its checkout read from the
\* book's row, and an existing order item is never changed or removed by
\* any later step (reprice, delete, status update, another checkout).
C15_ItemPriceCaptured ==
    [][/\ Len(order_items') >= Len(order_items)
       /\ \A i \in 1..Len(order_items) : order_items'[i] = order_items[i]
       /\ \A s \in Sessions :
             /\ (pc[s] = "read" /\ Len(cart_items'[s]) > Len(cart_items[s])) =>
                   cart_items'[s][Len(cart_items'[s])].price = books[cart[s][idx[s]].book_id].price
             /\ (pc[s] = "commit" /\ pc'[s] = "notify") =>
                   /\ Len(order_items') = Len(order_items) + Len(cart_items[s])
                   /\ \A i \in 1..Len(cart_items[s]) :
                         /\ order_items'[Len(order_items) + i].price = cart_items[s][i].price
                         /\ order_items'[Len(order_items) + i].quantity = cart_items[s][i].quantity]_vars

C15_Witness ==
    /\ Len(orders) = 2
    /\ \E i \in 1..Len(order_items) :
          /\ order_items[i].book_id \in DOMAIN books
          /\ order_items[i].price = Fin(2)
          /\ books[order_items[i].book_id].price = Fin(3)
    /\ \E i \in 1..Len(order_items) : order_items[i].book_id \notin DOMAIN books
    /\ \E i \in 1..Len(orders) : orders[i].status = "shipped"

OrderExists(oid) == \E i \in 1..Len(orders) : orders[i].order_id = oid

\* C14: an admin request that names a book or an order that is not there
\* (book update, book delete, order detail, order status update) answers
\* NotFound and leaves books, orders, order items and notifications as
\* they were.
C14_AbsentIsNotFound ==
    [][/\ \A b \in BookIds \ DOMAIN books :
             (\/ \E p \in DeskPrices, n \in DeskStocks : edit_book(b, NewText, p, n, "1")
              \/ delete_book(b))
             => (admin_outcome' = "notfound" /\ UNCHANGED dbvars)
       /\ \A oid \in OrderIds :
             (/\ ~OrderExists(oid)
              /\ \/ order_detail(oid)
                 \/ \E st \in Statuses : update_order_status(oid, st))
             => (admin_outcome' = "notfound" /\ UNCHANGED dbvars)]_vars

UnreadCount == Cardinality({i \in 1..Len(notifications) : ~notifications[i].is_read})

\* C16: mark_notification_read on a notification that is already read
\* leaves the notification table as it is, row for row, and with it the
\* unread count and every other table, and answers with success.
C16_MarkReadIdempotent ==
    [][\A n \in NotificationIds :
         (/\ n \in 1..Len(notifications)
          /\ notifications[n].is_read
          /\ mark_notification_read(n))
         => /\ notifications' = notifications
            /\ UnreadCount' = UnreadCount
            /\ admin_outcome' = "success"
            /\ UNCHANGED <<books, orders, order_items>>]_vars

C16_Witness ==
    /\ admin_outcome = "success"
    /\ Len(notifications) >= 2
    /\ notifications[1].is_read
    /\ UnreadCount = Len(notifications) - 1

\* C17: the notification log only grows; an existing notification keeps its
\* type and what it is about, a read notification stays read, and is_read
\* changes only in a mark_notification_read step for that notification.
C17_LogAppendOnly ==
    [][/\ Len(notifications') >= Len(notifications)
       /\ \A i \in 1..Len(notifications) :
             /\ notifications'[i].type = notifications[i].type
             /\ notifications'[i].ref = notifications[i].ref
             /\ notifications[i].is_read => notifications'[i].is_read
             /\ notifications'[i].is_read # notifications[i].is_read =>
                   mark_notification_read(i)]_vars

C17_Witness ==
    /\ Len(notifications) >= 3
    /\ notifications[1].is_read /\ notifications[2].is_read
    /\ ~notifications[Len(notifications)].is_read
    /\ \E i \in 1..Len(notifications) : notifications[i].type = "new_order"
    /\ \E i \in 1..Len(notifications) : notifications[i].type = "book_deleted"
    /\ \E i \in 1..Len(notifications) : notifications[i].type = "order_updated"

HasLine(c, b) == \E i \in 1..Len(c) : c[i].book_id = b

\* C18: add_to_cart(b, q) on a cart that holds b leaves the cart's lines in
\* place and makes b's quantity the old quantity + q; on a cart that does
\* not hold b it appends the line (b, q); every other line, and every other
\* session's cart, is unchanged.
C18_AddMergesBySumming ==
    [][\A s \in Sessions, b \in InitBookIds, q \in QtyInputs :
         add_to_cart(s, b, q) =>
            /\ IF HasLine(cart[s], b)
               THEN /\ Len(cart'[s]) = Len(cart[s])
                    /\ \A i \in 1..Len(cart[s]) :
                          cart[s][i].book_id = b =>
                             cart'[s][i] = [book_id |-> b, quantity |-> cart[s][i].quantity + q]
               ELSE /\ Len(cart'[s]) = Len(cart[s]) + 1
                    /\ cart'[s][Len(cart'[s])] = [book_id |-> b, quantity |-> q]
            /\ \A i \in 1..Len(cart[s]) :
                  cart[s][i].book_id # b => cart'[s][i] = cart[s][i]
            /\ \A u \in Sessions \ {s} : cart'[u] = cart[u]]_vars

C18_Witness ==
    /\ outcome[Shopper] = "added"
    /\ cart[Shopper] = <<[book_id |-> 2, quantity |-> 1], [book_id |-> 1, quantity |-> 0 - MaxQty]>>

\* C19: update_cart(b, q) with q <= 0 leaves no line for b; with q > 0 and
\* a line for b it leaves that line with quantity exactly q; either way no
\* line for b with a quantity <= 0 is left, and the other lines are as
\* they were.
C19_SetQuantity ==
    [][\A s \in Sessions, b \in InitBookIds, q \in QtyInputs :
         update_cart(s, b, q) =>
            /\ q <= 0 => ~HasLine(cart'[s], b)
            /\ (q > 0 /\ HasLine(cart[s], b)) =>
                  \E j \in 1..Len(cart'[s]) : cart'[s][j] = [book_id |-> b, quantity |-> q]
            /\ \A j \in 1..Len(cart'[s]) :
                  cart'[s][j].book_id = b => cart'[s][j].quantity > 0
            /\ \A i \in 1..Len(cart[s]) :
                  cart[s][i].book_id # b =>
                     \E j \in 1..Len(cart'[s]) : cart'[s][j] = cart[s][i]]_vars

C19_Witness ==
    /\ outcome[Shopper] = "removed"
    /\ cart[Shopper] = <<[book_id |-> 2, quantity |-> MaxQty]>>

\* C20: every admin request other than login and logout, made from a
\* session with no admin_id, changes no table, shows no rows and is
\* answered with the redirect to the login page; the session stays without
\* admin_id.
C20_LoginRequired ==
    [][(/\ admin_id = NoAdmin
        /\ \/ add_book(NewText, "3", "2", "1")
           \/ \E b \in BookIds : edit_book(b, NewText, "3", "0", "1")
           \/ \E b \in BookIds : delete_book(b)
           \/ \E oid \in OrderIds : update_order_status(oid, "shipped")
           \/ \E oid \in OrderIds : order_detail(oid)
           \/ \E n \in NotificationIds : mark_notification_read(n)
           \/ \E view \in DOMAIN AdminViews : admin_get(view)
           \/ export_inventory)
       => /\ UNCHANGED dbvars
          /\ admin_outcome' = "login"
          /\ admin_page' = {}
          /\ body' = NoBody
          /\ admin_id' = NoAdmin]_vars

C20_Witness ==
    /\ admin_id = NoAdmin
    /\ admin_outcome = "login"
    /\ 3 \in DOMAIN books
    /\ Len(notifications) = MaxNotifications
    /\ \E i \in 1..Len(notifications) : notifications[i].is_read

\* C21: a book created from a valid form (title, author, description,
\* genre, a price standing for an amount, a stock and a stock_threshold) is
\* fetched afterwards under its new id with exactly those values.
C21_CreatedBookRoundTrips ==
    [][\A text \in BookTexts, p \in PriceForms, n \in ShelfCounts, th \in ShelfCounts :
         add_book(text, p.text, IntText[n], IntText[th]) =>
            /\ admin_outcome' = "ok"
            /\ \E id \in {next_book_id} : FetchBook(id)' =
                  [title |-> text.title, author |-> text.author,
                   description |-> text.description, genre |-> text.genre,
                   price |-> Fin(p.amount), stock |-> n, stock_threshold |-> th]
            /\ \A b \in DOMAIN books : FetchBook(b)' = books[b]]_vars

C21_Witness ==
    /\ admin_outcome = "ok"
    /\ FetchBook(3) # NoRow
    /\ FetchBook(3).title = " dune " /\ FetchBook(3).genre = "Science Fiction"
    /\ FetchBook(3).price = Fin(2) /\ FetchBook(3).stock = 0
    /\ FetchBook(3).stock_threshold = 2
    /\ Len(notifications) = 1

\* C22: for a logged-in admin the inventory export always completes and
\* gives the header line and one line per book of the catalogue (the header
\* line alone when the catalogue is empty).
C22_ExportListsEveryBook ==
    [][(admin_id # NoAdmin /\ export_inventory)
       => /\ admin_outcome' = "csv"
          /\ body' = [header |-> CsvHeader, rows |-> DOMAIN books]]_vars

\* C23: the storefront index lists exactly the books with stock above zero,
\* a storefront search lists only such books (all of them when no filter is
\* given), and the admin's books and inventory pages list every book.
C23_StorefrontHidesOutOfStock ==
    [][/\ index => body'.rows = {b \in DOMAIN books : books[b].stock > 0}
       /\ \A q \in QueryInputs, g \in GenreInputs, a \in AuthorInputs,
             lo \in MinPriceInputs, hi \in MaxPriceInputs :
             search(q, g, a, lo, hi) =>
                /\ \A b \in body'.rows : b \in DOMAIN books /\ books[b].stock > 0
                /\ (q = "" /\ g = "" /\ a = "" /\ lo = "" /\ hi = "")
                      => body'.rows = {b \in DOMAIN books : books[b].stock > 0}
       /\ \A view \in CatalogueViews :
             (admin_id # NoAdmin /\ admin_get(view)) => body'.rows = DOMAIN books]_vars

\* a storefront list that shows a book while another one is out of stock
C23_Witness ==
    /\ admin_outcome = "ok"
    /\ body.rows # {}
    /\ \E b \in DOMAIN books : books[b].stock = 0 /\ b \notin body.rows
    /\ 3 \in body.rows

\* C24: a checkout that has started ends, and ends without its connection
\* holding the write transaction open.
C24_CheckoutEndsAndReleases ==
    \A s \in Sessions : (pc[s] # "idle") ~> (pc[s] = "idle" /\ writer # s)

\* C25: with checkouts only, the stock of every book plus the quantities of
\* its persisted order items is the same after every step as before it, and
\* so always equals the book's initial stock (there is no order item at the
\* start): no decrement is lost, doubled, or made without its order item.
C25_StockConserved ==
    [][\A b \in DOMAIN books :
         /\ b \in DOMAIN books'
         /\ books'[b].stock + SoldIn(order_items', b)
              = books[b].stock + SoldIn(order_items, b)]_vars

\* both customers have bought book 1, two copies in all
C25_Witness ==
    /\ Len(orders) = 2
    /\ SoldIn(order_items, 1) >= 2
    /\ \E i \in 1..Len(order_items) : order_items[i].quantity = 2
    /\ \A s \in Sessions : pc[s] = "idle"

\* C26: every row of orders has at least one row of order_items under its
\* order_id, and every row of order_items carries the order_id of a row of
\* orders.
C26_OrdersAndItemsMatch ==
    /\ \A i \in 1..Len(orders) :
          \E j \in 1..Len(order_items) : order_items[j].order_id = orders[i].order_id
    /\ \A j \in 1..Len(order_items) :
          \E i \in 1..Len(orders) : orders[i].order_id = order_items[j].order_id

\* two orders, one of them with two items
C26_Witness ==
    /\ Len(orders) = 2
    /\ Len(order_items) = 3
    /\ \A s \in Sessions : pc[s] = "idle" /\ cart[s] = <<>>

\* C27: when a checkout meets a cart line whose book is no longer in the
\* catalogue, it ends with the handled error of the read loop (the flash and
\* the redirect to the cart) and no table changes.
C27_DeletedBookIsHandled ==
    [][\A s \in Sessions :
         (/\ CheckoutRead(s)
          /\ cart[s][idx[s]].book_id \notin DOMAIN books)
         => /\ outcome'[s] = "insufficient"
            /\ pc'[s] = "idle"
            /\ UNCHANGED dbvars]_vars

\* C28: an update of a book from a valid form appends one low_stock
\* notification when the stock before it was above the submitted threshold,
\* the submitted stock is at or below it and the update of the row is
\* committed; in every other case it appends nothing.
C28_LowStockAlertWithUpdate ==
    [][\A b \in BookIds, p \in PriceInputs, n \in StockInputs, th \in ThresholdInputs :
         (/\ edit_book(b, NewText, p, n, th)
          /\ admin_id # NoAdmin
          /\ b \in DOMAIN books
          /\ FormValid(p, n, th))
         => notifications' =
               IF /\ books[b].stock > ParseInt(th).v
                  /\ ParseInt(n).v <= ParseInt(th).v
                  /\ admin_outcome' = "ok"
                  /\ books'[b].stock = ParseInt(n).v
               THEN Append(notifications, Notification("low_stock", b))
               ELSE notifications]_vars

PersistedIds == {orders[i].order_id : i \in 1..Len(orders)}

\* C29: the INSERT of a checkout gets past the orders table only with an
\* order_id that no persisted order carries; a checkout whose INSERT is
\* refused ends there and leaves books, orders, order_items and the
\* notifications as they were, and a checkout that commits adds an order
\* under an identifier that was not persisted before.
C29_CollisionChangesNothing ==
    [][\A s \in Sessions :
         /\ (CheckoutInsert(s) /\ pc'[s] = "commit") => order_id'[s] \notin PersistedIds
         /\ (CheckoutInsert(s) /\ pc'[s] # "commit")
               => /\ outcome'[s] = "IntegrityError"
                  /\ pc'[s] = "idle"
                  /\ UNCHANGED dbvars
         /\ CheckoutCommit(s) => order_id[s] \notin PersistedIds]_vars

\* the second checkout has drawn the first order's identifier: one order
\* with its one item, the stock one copy down, the second cart still there
C29_Witness ==
    \E s \in Sessions, b \in InitBookIds :
        /\ outcome[s] = "IntegrityError" /\ pc[s] = "idle"
        /\ cart[s] = <<[book_id |-> b, quantity |-> 2]>>
        /\ Len(orders) = 1 /\ orders[1].customer_name # s
        /\ Len(order_items) = 1 /\ order_items[1].book_id = b
        /\ order_items[1].quantity = 1
        /\ books[b].stock = MaxStock - 1

\* C30: for every book the top-selling query has a row for, the export
\* reports the same Total Sold and the same Total Revenue.
C30_ExportMatchesTopSelling ==
    \A b \in TopSelling :
        /\ export_analytics_data(b).total_sold = get_top_selling_books(b).total_sold
        /\ export_analytics_data(b).total_revenue = get_top_selling_books(b).total_revenue

====
